---------------------------- MODULE Spec2Model ----------------------------
(***************************************************************************)
(* The task collection engine of todo-vanilla (src/app.js; the earlier    *)
(* variant src/unnamed/part_000 has the same store logic): the in-memory   *)
(* array `tasks`, the localStorage blob under LS_KEY, the view settings    *)
(* `state`, and the event handlers that change them.                       *)
(*                                                                         *)
(* Data representation                                                     *)
(*   text        a sequence of one-character strings, so that trim,        *)
(*               toLowerCase and includes are computed, not assumed        *)
(*   due         "" or a date string; DateTime gives new Date(d).getTime() *)
(*   createdAt   the clock reading at creation (a number standing for the  *)
(*               ISO string)                                               *)
(*   order       a JS number: an integer or Infinity (JSON.parse reads     *)
(*               1e999 as Infinity; JSON.stringify writes it as null)      *)
(*   JSON value  a record with the six task fields and `nulls`, the set of *)
(*               fields that are absent or null in the JSON text           *)
(* uid() is modelled as fresh: the k-th id issued in a session is UidNames *)
(* [k]; ids found in the blob are other strings.                           *)
(***************************************************************************)
EXTENDS Integers, Sequences, FiniteSets, TLC

VARIABLES
    tasks,      \* let tasks (app.js:45): sequence of task records
    storage,    \* localStorage[LS_KEY]: [kind, items]
    state,      \* let state (app.js:46): [search, filter, sort]
    uids,       \* number of ids uid() has issued
    now,        \* the clock read by new Date()
    events,     \* number of user events handled since the page started
    last        \* the handler that ran last and what it did

vars == <<tasks, storage, state, uids, now, events, last>>

---------------------------------------------------------------------------
(* Bounds *)

MaxEvents == 2      \* user events handled in one session

---------------------------------------------------------------------------
(* JS values *)

Infinity == 1000

UidNames == <<"u1", "u2", "u3", "u4", "u5", "u6", "u7", "u8">>

\* Math.random().toString(36).slice(2) + Date.now().toString(36), the k-th call
uid(k) == UidNames[k]

\* an id no task ever has
GhostId == "zz"

\* new Date(due).getTime(), in days
DateTime(d) == IF d = "2024-01-05" THEN 5 ELSE 10

RECURSIVE TrimStart(_)
TrimStart(s) ==
    IF s # <<>> /\ Head(s) = " " THEN TrimStart(Tail(s)) ELSE s

RECURSIVE TrimEnd(_)
TrimEnd(s) ==
    IF s # <<>> /\ s[Len(s)] = " " THEN TrimEnd(SubSeq(s, 1, Len(s) - 1)) ELSE s

\* faulty variant of trim, for sensitivity analysis: blanks are kept
TrimNothing(s) == s

\* String.prototype.trim
Trim(s) == TrimEnd(TrimStart(s))

LowerChar(c) == IF c = "A" THEN "a" ELSE IF c = "B" THEN "b" ELSE c

\* faulty variant of toLowerCase, for sensitivity analysis: the case is kept
keepCase(s) == s

\* String.prototype.toLowerCase
toLowerCase(s) == [i \in 1..Len(s) |-> LowerChar(s[i])]

\* String.prototype.includes
includes(s, sub) ==
    \E i \in 0..(Len(s) - Len(sub)) : SubSeq(s, i + 1, i + Len(sub)) = sub

\* sign of x - y for JS numbers; Infinity - Infinity is NaN, which sort reads as 0
Minus(x, y) ==
    IF x = Infinity /\ y = Infinity THEN 0
    ELSE IF x < y THEN -1 ELSE IF x > y THEN 1 ELSE 0

\* Array.prototype.findIndex(t => t.id === id); 0 stands for -1
findIndex(arr, id) ==
    IF \E i \in 1..Len(arr) : arr[i].id = id
    THEN CHOOSE i \in 1..Len(arr) : arr[i].id = id /\ \A j \in 1..(i - 1) : arr[j].id # id
    ELSE 0

\* Math.max(...xs) + 1
MaxPlusOne(xs) ==
    LET m == CHOOSE x \in xs : \A y \in xs : y <= x
    IN  IF m = Infinity THEN Infinity ELSE m + 1

---------------------------------------------------------------------------
(* Persistence: saveTasks / loadTasks *)

\* JSON.stringify of one task: a non-finite number is written as null
JsonOfTask(t) ==
    [id |-> t.id, title |-> t.title, due |-> t.due, completed |-> t.completed,
     createdAt |-> t.createdAt,
     order |-> IF t.order = Infinity THEN 0 ELSE t.order,
     nulls |-> IF t.order = Infinity THEN {"order"} ELSE {}]

\* localStorage.setItem(LS_KEY, JSON.stringify(tasks))
saveTasks(ts) ==
    [kind |-> "array", items |-> [i \in 1..Len(ts) |-> JsonOfTask(ts[i])]]

\* an array element that is null: reading t.id throws, and the catch returns []
IsNullItem(r) == "item" \in r.nulls

\* t.id || uid()
NeedsUid(r) == "id" \in r.nulls \/ r.id = ""

\* parsed.map((t, i) => ({ ... })): the records of the text, normalized, when
\* uid() has issued u ids and the clock reads clk; a null element makes the
\* callback throw, and the catch returns []
normalize(parsed, u, clk) ==
    IF \E j \in 1..Len(parsed) : IsNullItem(parsed[j]) THEN <<>>
    ELSE LET fresh(i) == Cardinality({j \in 1..i : NeedsUid(parsed[j])})
         IN  [i \in 1..Len(parsed) |->
                LET t == parsed[i] IN
                [id |-> IF NeedsUid(t) THEN uid(u + fresh(i)) ELSE t.id,
                 title |-> IF "title" \in t.nulls THEN <<>> ELSE Trim(t.title),
                 due |-> IF "due" \in t.nulls THEN "" ELSE t.due,
                 completed |-> IF "completed" \in t.nulls THEN FALSE ELSE t.completed,
                 createdAt |-> IF "createdAt" \in t.nulls THEN clk ELSE t.createdAt,
                 order |-> IF "order" \in t.nulls THEN i - 1 ELSE t.order]]

\* faulty variant of loadTasks, for sensitivity analysis: whatever text is there
\* is taken for an array of records
loadTasksUnguarded(b, u, clk) == normalize(b.items, u, clk)

\* loadTasks against blob b: no text (absent, empty), text that does not parse
\* (invalid) and text that parses to something else (nonarray) give []
loadTasks(b, u, clk) ==
    IF b.kind # "array" THEN <<>> ELSE normalize(b.items, u, clk)

\* how many ids loadTasks draws from uid()
UidsDrawn(b) ==
    IF b.kind # "array" THEN 0
    ELSE IF \E j \in 1..Len(b.items) : IsNullItem(b.items[j]) THEN 0
    ELSE Cardinality({j \in 1..Len(b.items) : NeedsUid(b.items[j])})

---------------------------------------------------------------------------
(* What localStorage may hold when the page starts *)

\* three well-formed records, as the page itself writes them
ItemA ==
    [id |-> "a", title |-> <<"B", "a">>, due |-> "2024-01-10", completed |-> FALSE,
     createdAt |-> 0, order |-> 0, nulls |-> {}]
ItemB ==
    [id |-> "b", title |-> <<"a">>, due |-> "", completed |-> TRUE,
     createdAt |-> 0, order |-> 1, nulls |-> {}]
ItemC ==
    [id |-> "c", title |-> <<"A", "b">>, due |-> "2024-01-05", completed |-> FALSE,
     createdAt |-> 0, order |-> 2, nulls |-> {}]
\* records only an edited or foreign blob holds: a repeated id with a later
\* order and an untrimmed title; an order of 1e999; an empty object; null
ItemA2 ==
    [id |-> "a", title |-> <<" ", "a", " ">>, due |-> "2024-01-05", completed |-> TRUE,
     createdAt |-> 0, order |-> 3, nulls |-> {}]
ItemInf ==
    [id |-> "c", title |-> <<"a">>, due |-> "", completed |-> FALSE,
     createdAt |-> 0, order |-> Infinity, nulls |-> {}]
ItemBare ==
    [id |-> "", title |-> <<>>, due |-> "", completed |-> FALSE,
     createdAt |-> 0, order |-> 0,
     nulls |-> {"id", "title", "due", "completed", "createdAt", "order"}]
ItemNull ==
    [id |-> "", title |-> <<>>, due |-> "", completed |-> FALSE,
     createdAt |-> 0, order |-> 0, nulls |-> {"item"}]

StoredArrays ==
    { <<>>, <<ItemA>>, <<ItemA, ItemB>>, <<ItemA, ItemB, ItemC>>, <<ItemB, ItemA2>>,
      <<ItemA, ItemA2>>, <<ItemA, ItemA2, ItemB>>, <<ItemA, ItemInf>>,
      <<ItemBare, ItemA>>, <<ItemBare, ItemBare>>, <<ItemNull>>, <<ItemA, ItemNull>> }

\* no item under the key; the empty string; a text cut off inside its first
\* record; the text of one record outside any array; the text of an array
StoredBlobs ==
    { [kind |-> k, items |-> <<>>] : k \in {"absent", "empty"} }
    \cup { [kind |-> k, items |-> <<ItemA>>] : k \in {"invalid", "nonarray"} }
    \cup { [kind |-> "array", items |-> q] : q \in StoredArrays }

\* what the inputs of the page may hold
TitleInputs == { <<>>, <<" ">>, <<" ", "B", " ">> }
DateInputs == { "", "2024-01-05" }
SearchInputs == { <<>>, <<"B">> }
Filters == { "all", "done", "todo" }
Sorts == { "manual", "dueAsc", "dueDesc", "createdAsc", "createdDesc" }

---------------------------------------------------------------------------
(* Logic: addTask, updateTask, deleteTask, reindexOrder, the projection *)

Orders(ts) == { ts[i].order : i \in 1..Len(ts) }

\* faulty variant of the new record, for sensitivity analysis: order is the
\* maximum itself, not the maximum plus one
NewTaskAtMax(ts, title, due, id, clk) ==
    [id |-> id, title |-> title, due |-> due, completed |-> FALSE, createdAt |-> clk,
     order |-> IF Len(ts) # 0 THEN MaxPlusOne(Orders(ts)) - 1 ELSE 0]

\* the record addTask builds (app.js:197-202)
NewTask(ts, title, due, id, clk) ==
    [id |-> id, title |-> title, due |-> due, completed |-> FALSE, createdAt |-> clk,
     order |-> IF Len(ts) # 0 THEN MaxPlusOne(Orders(ts)) ELSE 0]

\* faulty variant of the merge, for sensitivity analysis: every field of the
\* patch record is copied, whether the patch has the property or not
MergeAll(t, patch) ==
    [t EXCEPT !.title = patch.title, !.due = patch.due, !.completed = patch.completed]

\* { ...t, ...patch }: patch.keys are the properties the patch has
Merge(t, patch) ==
    [t EXCEPT !.title = IF "title" \in patch.keys THEN patch.title ELSE @,
              !.due = IF "due" \in patch.keys THEN patch.due ELSE @,
              !.completed = IF "completed" \in patch.keys THEN patch.completed ELSE @]

Patch(keys, title, due, completed) ==
    [keys |-> keys, title |-> title, due |-> due, completed |-> completed]

CmpOrder(a, b) == Minus(a.order, b.order)

DueTime(t) == IF t.due # "" THEN DateTime(t.due) ELSE Infinity

byDue(a, b) == Minus(DueTime(a), DueTime(b))

byCreated(a, b) == Minus(a.createdAt, b.createdAt)

byDueDesc(a, b) == byDue(b, a)

byCreatedDesc(a, b) == byCreated(b, a)

\* the comparator the switch on state.sort selects
compare(how, a, b) ==
    CASE how = "manual" -> CmpOrder(a, b)
      [] how = "dueAsc" -> byDue(a, b)
      [] how = "dueDesc" -> byDueDesc(a, b)
      [] how = "createdAsc" -> byCreated(a, b)
      [] how = "createdDesc" -> byCreatedDesc(a, b)
      [] OTHER -> CmpOrder(a, b)

\* Array.prototype.sort with the comparator of `how`: stable; the comparator
\* gives a sign
ArraySort(arr, how) ==
    LET n == Len(arr)
        cmp(x, y) == compare(how, x, y)
        rank(i) == Cardinality({j \in 1..n :
                        \/ cmp(arr[j], arr[i]) < 0
                        \/ (cmp(arr[j], arr[i]) = 0 /\ cmp(arr[i], arr[j]) = 0 /\ j < i)}) + 1
    IN  [k \in 1..n |-> arr[CHOOSE i \in 1..n : rank(i) = k]]

\* faulty variant of the reindex, for sensitivity analysis: numbers the tasks as
\* they lie in the array, without sorting them by order first
reindexUnsorted(ts) ==
    [i \in 1..Len(ts) |-> [ts[i] EXCEPT !.order = i - 1]]

\* faulty variant of the reindex, for sensitivity analysis: sorts the tasks by
\* order and leaves the order values as they are
reindexUnnumbered(ts) == ArraySort(ts, "manual")

\* tasks.sort((a,b) => a.order - b.order).forEach((t,i) => t.order = i)
reindexOrder(ts) ==
    LET sorted == ArraySort(ts, "manual")
    IN  [i \in 1..Len(ts) |-> [sorted[i] EXCEPT !.order = i - 1]]

\* tasks.filter(t => t.id !== id)
WithoutId(ts, id) ==
    LET keep(t) == t.id # id IN SelectSeq(ts, keep)

\* tasks.filter(t => !t.completed)
WithoutCompleted(ts) ==
    LET keep(t) == ~t.completed IN SelectSeq(ts, keep)

\* ids.forEach((id, index) => { const t = tasks.find(..); if (t) t.order = index; })
ApplyOrder(ts, ids) ==
    [i \in 1..Len(ts) |->
        LET hits == { k \in 1..Len(ids) : findIndex(ts, ids[k]) = i }
        IN  IF hits = {} THEN ts[i]
            ELSE [ts[i] EXCEPT !.order = (CHOOSE k \in hits : \A m \in hits : m <= k) - 1]]

getFilteredSortedTasks(ts, st) ==
    LET matches(t) == includes(toLowerCase(t.title), st.search)
        done(t) == t.completed
        todo(t) == ~t.completed
        arr1 == IF st.search # <<>> THEN SelectSeq(ts, matches) ELSE ts
        arr2 == IF st.filter = "done" THEN SelectSeq(arr1, done) ELSE arr1
        arr3 == IF st.filter = "todo" THEN SelectSeq(arr2, todo) ELSE arr2
    IN  ArraySort(arr3, st.sort)

---------------------------------------------------------------------------
(* The page *)

\* the order values are exactly 0..N-1
Contiguous(ts) == Orders(ts) = 0..(Len(ts) - 1)

HasId(ts, id) == \E i \in 1..Len(ts) : ts[i].id = id

\* the browser dispatches one more event to its handler
Event ==
    /\ events < MaxEvents
    /\ events' = events + 1

\* localStorage.setItem(LS_KEY, text): stores the text, or throws (quota exceeded,
\* storage denied) and stores nothing; ok tells which
setItem(text, ok) == IF ok THEN text ELSE storage

\* history: the handler that ran, whether it found what it acts on (hit), whether
\* it called saveTasks (issued) and whether that write went through (ok), whether
\* the order values it started from were other than 0..N-1 (gapped), and its
\* inputs (id, ids, raw, due, checked). wrote: the write went through; failed: it
\* threw.
Ran(op, hit, issued, ok, id, ids, raw, due, checked) ==
    [op |-> op, hit |-> hit, wrote |-> issued /\ ok, failed |-> issued /\ ~ok,
     gapped |-> ~Contiguous(tasks), id |-> id, ids |-> ids, raw |-> raw,
     due |-> due, checked |-> checked]

\* every arrangement of some of the members of P
RECURSIVE Arrangements(_)
Arrangements(P) ==
    {<<>>} \cup UNION { { <<x>> \o q : q \in Arrangements(P \ {x}) } : x \in P }

\* the data-id attributes of the .item elements, top to bottom: rendered tasks,
\* each once, in any order the drag left them in; position 0 stands for an
\* element whose id matches no task
IdSequences(ts) ==
    LET idAt(i) == IF i = 0 THEN GhostId ELSE ts[i].id
    IN  { [k \in 1..Len(q) |-> idAt(q[k])] : q \in Arrangements(0..Len(ts)) }

Init ==
    \E blob \in StoredBlobs :
        /\ storage = blob
        /\ tasks = loadTasks(blob, 0, 1)
        /\ uids = UidsDrawn(blob)
        /\ now = 1
        /\ events = 0
        /\ state = [search |-> <<>>, filter |-> "all", sort |-> "manual"]
        /\ last = [op |-> "loadTasks", hit |-> blob.kind = "array", wrote |-> FALSE,
                   failed |-> FALSE, due |-> "", checked |-> FALSE,
                   gapped |-> FALSE, id |-> "", ids |-> <<>>, raw |-> <<>>]

\* addTask(title, due)
addTask(title, due, ok) ==
    /\ tasks' = Append(tasks, NewTask(tasks, title, due, uid(uids + 1), now))
    /\ storage' = setItem(saveTasks(tasks'), ok)
    /\ uids' = uids + 1
    /\ now' = now + 1
    /\ UNCHANGED state

\* updateTask(id, patch, opts)
updateTask(id, patch, ok) ==
    LET idx == findIndex(tasks, id)
    IN  IF idx = 0 THEN UNCHANGED <<tasks, storage, state, uids, now>>
        ELSE /\ tasks' = [tasks EXCEPT ![idx] = Merge(tasks[idx], patch)]
             /\ storage' = setItem(saveTasks(tasks'), ok)
             /\ UNCHANGED <<state, uids, now>>

\* deleteTask(id)
deleteTask(id, ok) ==
    /\ tasks' = reindexOrder(WithoutId(tasks, id))
    /\ storage' = setItem(saveTasks(tasks'), ok)
    /\ UNCHANGED <<state, uids, now>>

\* addBtn "click"
AddBtnClick(rawTitle, rawDue, ok) ==
    LET title == Trim(rawTitle)
        due == rawDue
    IN  IF title = <<>>
        THEN /\ UNCHANGED <<tasks, storage, state, uids, now>>
             /\ last' = Ran("addBtn", FALSE, FALSE, ok, "", <<>>, rawTitle, rawDue, FALSE)
        ELSE /\ addTask(title, due, ok)
             /\ last' = Ran("addBtn", TRUE, TRUE, ok, "", <<>>, rawTitle, rawDue, FALSE)

\* checkbox "change"
CheckboxChange(id, checked, ok) ==
    /\ updateTask(id, Patch({"completed"}, <<>>, "", checked), ok)
    /\ last' = Ran("checkbox", HasId(tasks, id), HasId(tasks, id), ok, id, <<>>, <<>>, "", checked)

\* Save button of the inline edit form
EditSave(id, rawTitle, rawDue, ok) ==
    LET newTitle == Trim(rawTitle)
    IN  IF newTitle = <<>>
        THEN /\ UNCHANGED <<tasks, storage, state, uids, now>>
             /\ last' = Ran("editSave", FALSE, FALSE, ok, id, <<>>, rawTitle, rawDue, FALSE)
        ELSE /\ updateTask(id, Patch({"title", "due"}, newTitle, rawDue, FALSE), ok)
             /\ last' = Ran("editSave", HasId(tasks, id), HasId(tasks, id), ok, id,
                             <<>>, rawTitle, rawDue, FALSE)

\* Delete button
DeleteClick(id, ok) ==
    /\ deleteTask(id, ok)
    /\ last' = Ran("deleteTask", HasId(tasks, id), TRUE, ok, id, <<>>, <<>>, "", FALSE)

\* clearAllBtn "click"
ClearAllBtnClick(ok) ==
    IF ~\E i \in 1..Len(tasks) : tasks[i].completed
    THEN /\ UNCHANGED <<tasks, storage, state, uids, now>>
         /\ last' = Ran("clearCompleted", FALSE, FALSE, ok, "", <<>>, <<>>, "", FALSE)
    ELSE /\ tasks' = reindexOrder(WithoutCompleted(tasks))
         /\ storage' = setItem(saveTasks(tasks'), ok)
         /\ UNCHANGED <<state, uids, now>>
         /\ last' = Ran("clearCompleted", TRUE, TRUE, ok, "", <<>>, <<>>, "", FALSE)

\* item "dragend"
DragEnd(ids, ok) ==
    /\ tasks' = ApplyOrder(tasks, ids)
    /\ storage' = setItem(saveTasks(tasks'), ok)
    /\ state' = IF ok THEN [state EXCEPT !.sort = "manual"] ELSE state
    /\ UNCHANGED <<uids, now>>
    /\ last' = Ran("reorder", \A k \in 1..Len(ids) : HasId(tasks, ids[k]), TRUE, ok, "", ids,
                 <<>>, "", FALSE)

\* searchInput "input"
SearchInput(raw) ==
    /\ state' = [state EXCEPT !.search = toLowerCase(raw)]
    /\ UNCHANGED <<tasks, storage, uids, now>>
    /\ last' = Ran("search", TRUE, FALSE, TRUE, "", <<>>, raw, "", FALSE)

\* filterSelect "change"
FilterChange(f) ==
    /\ state' = [state EXCEPT !.filter = f]
    /\ UNCHANGED <<tasks, storage, uids, now>>
    /\ last' = Ran("filter", TRUE, FALSE, TRUE, "", <<>>, <<>>, "", FALSE)

\* sortSelect "change"
SortChange(srt) ==
    /\ state' = [state EXCEPT !.sort = srt]
    /\ UNCHANGED <<tasks, storage, uids, now>>
    /\ last' = Ran("sort", TRUE, FALSE, TRUE, "", <<>>, <<>>, "", FALSE)

\* the page is loaded again: the script runs from the top (let tasks = loadTasks(),
\* let state = {...}); uid() goes on issuing fresh ids
Reload ==
    /\ tasks' = loadTasks(storage, uids, now)
    /\ uids' = uids + UidsDrawn(storage)
    /\ state' = [search |-> <<>>, filter |-> "all", sort |-> "manual"]
    /\ UNCHANGED <<storage, now>>
    /\ last' = Ran("loadTasks", storage.kind = "array", FALSE, TRUE, "", <<>>, <<>>, "",
                   FALSE)

\* the ids a handler can be called with: those of the tasks, and one of no task
IdUniverse == { tasks[i].id : i \in 1..Len(tasks) } \cup {GhostId}

Next ==
    \/ Event /\ \E rawTitle \in TitleInputs, rawDue \in DateInputs, ok \in BOOLEAN :
                    AddBtnClick(rawTitle, rawDue, ok)
    \/ Event /\ \E id \in IdUniverse, checked \in BOOLEAN, ok \in BOOLEAN :
                    CheckboxChange(id, checked, ok)
    \/ Event /\ \E id \in IdUniverse, rawTitle \in TitleInputs, rawDue \in DateInputs,
                    ok \in BOOLEAN :
                    EditSave(id, rawTitle, rawDue, ok)
    \/ Event /\ \E id \in IdUniverse, ok \in BOOLEAN : DeleteClick(id, ok)
    \/ Event /\ \E ok \in BOOLEAN : ClearAllBtnClick(ok)
    \/ Event /\ \E ids \in IdSequences(tasks), ok \in BOOLEAN : DragEnd(ids, ok)
    \/ Event /\ \E raw \in SearchInputs : SearchInput(raw)
    \/ Event /\ \E f \in Filters : FilterChange(f)
    \/ Event /\ \E srt \in Sorts : SortChange(srt)
    \/ Event /\ Reload

Spec == Init /\ [][Next]_vars

---------------------------------------------------------------------------
(* Vocabulary of the properties *)

\* a task without its order value
Bare(t) ==
    [id |-> t.id, title |-> t.title, due |-> t.due, completed |-> t.completed,
     createdAt |-> t.createdAt]

BareSeq(ts) == [i \in 1..Len(ts) |-> Bare(ts[i])]

IdsOf(ts) == [i \in 1..Len(ts) |-> ts[i].id]

\* the projection with sort = manual, empty search, filter = all
ManualView(ts) ==
    getFilteredSortedTasks(ts, [search |-> <<>>, filter |-> "all", sort |-> "manual"])

\* the text consists of blanks only (it trims to the empty string)
AllBlank(raw) == \A i \in 1..Len(raw) : raw[i] = " "

\* the stored text holds exactly the records of ts, field by field, in sequence
StorageHolds(ts) ==
    /\ storage.kind = "array"
    /\ Len(storage.items) = Len(ts)
    /\ \A i \in 1..Len(ts) :
          /\ storage.items[i].nulls = {}
          /\ storage.items[i].id = ts[i].id
          /\ storage.items[i].title = ts[i].title
          /\ storage.items[i].due = ts[i].due
          /\ storage.items[i].completed = ts[i].completed
          /\ storage.items[i].createdAt = ts[i].createdAt
          /\ storage.items[i].order = ts[i].order

\* the step is a delete, or a clearCompleted
Removal(l) == l.op = "deleteTask" \/ l.op = "clearCompleted"

\* what the removal of step l leaves of ts
Survivors(ts, l) ==
    LET keepId(t) == t.id # l.id
        keepTodo(t) == ~t.completed
    IN  IF l.op = "deleteTask" THEN SelectSeq(ts, keepId) ELSE SelectSeq(ts, keepTodo)

\* after the step the order values are 0..N-1 and the survivors are in the manual
\* order they had before it
ReindexedInPlace ==
    /\ Contiguous(tasks')
    /\ BareSeq(ManualView(tasks')) = BareSeq(ManualView(Survivors(tasks, last')))

---------------------------------------------------------------------------
(* C1 *)

---------------------------------------------------------------------------
(* C2 *)

\* C2 as stated: after any create the order values of all tasks are exactly
\* 0..count-1.
C2_CreateContiguous ==
    (last.op = "addBtn" /\ last.hit) => Contiguous(tasks)

\* C2, amended: after a create from a collection whose order values are exactly
\* 0..count-1, the order values of all tasks are again exactly 0..count-1 (create
\* appends at max+1 and does not reindex: gaps and repeats stay).
C2_CreateKeepsContiguous ==
    (last.op = "addBtn" /\ last.hit /\ ~last.gapped) => Contiguous(tasks)

\* a task was added to a non-empty collection with order values 0..N-1
C2_Witness ==
    /\ last.op = "addBtn" /\ last.hit /\ ~last.gapped
    /\ Len(tasks) >= 2

---------------------------------------------------------------------------
(* C3 *)

\* C3: right after every mutating operation the collection held in storage equals
\* the collection in memory (same records, same field values, same sequence).
C3_WriteThrough ==
    last.wrote => StorageHolds(tasks)

---------------------------------------------------------------------------
(* C4 *)

\* C4: in every reachable state the tasks in memory have pairwise distinct ids,
\* whatever the stored blob held at load.
C4_UniqueIds ==
    \A i, j \in 1..Len(tasks) : i # j => tasks[i].id # tasks[j].id

---------------------------------------------------------------------------
(* C5 *)

\* C5: a create or a title update whose title trims to empty changes neither the
\* collection in memory nor the stored blob, and issues no write.
C5_BlankTitleRejected ==
    [][((last'.op = "addBtn" \/ last'.op = "editSave") /\ AllBlank(last'.raw))
          => (tasks' = tasks /\ storage' = storage /\ ~last'.wrote)]_vars

\* a title of blanks was submitted for an existing task
C5_Witness ==
    /\ last.op = "editSave" /\ HasId(tasks, last.id)
    /\ last.raw # <<>> /\ AllBlank(last.raw)

---------------------------------------------------------------------------
(* C6 *)

\* C6: under sort dueAsc and dueDesc every undated task comes after every dated
\* task; dated tasks are by increasing due date under dueAsc, decreasing under
\* dueDesc.
C6_UndatedLast ==
    (state.sort = "dueAsc" \/ state.sort = "dueDesc") =>
        LET v == getFilteredSortedTasks(tasks, state)
        IN  \A i, j \in 1..Len(v) : i < j =>
              /\ v[i].due = "" => v[j].due = ""
              /\ (v[i].due # "" /\ v[j].due # "") =>
                    IF state.sort = "dueAsc"
                    THEN DateTime(v[i].due) <= DateTime(v[j].due)
                    ELSE DateTime(v[i].due) >= DateTime(v[j].due)

---------------------------------------------------------------------------
(* C7 *)

\* ids names every task, and nothing else
CoversAll(ids, ts) ==
    /\ \A i \in 1..Len(ts) : \E k \in 1..Len(ids) : ids[k] = ts[i].id
    /\ \A k \in 1..Len(ids) : HasId(ts, ids[k])

\* C7: after reorder(idSequence) with idSequence an arrangement of all current
\* ids, the manual projection reads exactly idSequence, and the same reorder
\* applied again changes nothing.
C7_FullReorderReadsBack ==
    (last.op = "reorder" /\ CoversAll(last.ids, tasks)) =>
        /\ IdsOf(ManualView(tasks)) = last.ids
        /\ ApplyOrder(tasks, last.ids) = tasks

---------------------------------------------------------------------------
(* C8 *)

Occurs(ids, id) == \E k \in 1..Len(ids) : ids[k] = id

\* C8: reorder(idSequence) sets the order of every task whose id occurs in
\* idSequence to that id's index, and changes nothing else: other tasks keep
\* their order, no other field changes, the tasks and their sequence stay, and
\* ids that match no task have no effect.
C8_ReorderFrame ==
    [][last'.op = "reorder" =>
          /\ BareSeq(tasks') = BareSeq(tasks)
          /\ \A i \in 1..Len(tasks) :
                IF Occurs(last'.ids, tasks[i].id)
                THEN \E k \in 1..Len(last'.ids) :
                        last'.ids[k] = tasks[i].id /\ tasks'[i].order = k - 1
                ELSE tasks'[i].order = tasks[i].order]_vars

---------------------------------------------------------------------------
(* C9 *)

\* C9: delete(id) with an id of no task leaves the collection in memory, every
\* order value and the sequence of tasks unchanged.
C9_DeleteAbsentNoOp ==
    [][(last'.op = "deleteTask" /\ ~last'.hit) => tasks' = tasks]_vars

---------------------------------------------------------------------------
(* C10 *)

\* the fields a handler's patch carries
Patched(op) == IF op = "checkbox" THEN {"completed"} ELSE {"title", "due"}

\* C10: update(id, patch) changes only the patched fields of the task with that
\* id: id, order, createdAt and unpatched fields stay, other tasks stay, number
\* and sequence stay; with no such task, memory and storage stay.
C10_UpdateFrame ==
    [][(last'.op = "checkbox" \/ last'.op = "editSave") =>
          /\ Len(tasks') = Len(tasks)
          /\ \A i \in 1..Len(tasks) :
                /\ tasks'[i].id = tasks[i].id
                /\ tasks'[i].order = tasks[i].order
                /\ tasks'[i].createdAt = tasks[i].createdAt
                /\ "title" \notin Patched(last'.op) => tasks'[i].title = tasks[i].title
                /\ "due" \notin Patched(last'.op) => tasks'[i].due = tasks[i].due
                /\ "completed" \notin Patched(last'.op)
                      => tasks'[i].completed = tasks[i].completed
                /\ tasks[i].id # last'.id => tasks'[i] = tasks[i]
          /\ ~HasId(tasks, last'.id) => (tasks' = tasks /\ storage' = storage)]_vars

\* a title and due date were saved for one of two or more tasks
C10_Witness ==
    /\ last.op = "editSave" /\ last.hit /\ ~AllBlank(last.raw)
    /\ Len(tasks) >= 2

---------------------------------------------------------------------------
(* C11 *)

\* C11: no task of the persisted collection has an empty title; stated of the
\* collection as the page itself last wrote it, so that a blob nobody has written
\* over yet does not count.
C11_NoEmptyTitleWritten ==
    last.wrote =>
        \A i \in 1..Len(storage.items) : storage.items[i].title # <<>>

---------------------------------------------------------------------------
(* C12 *)

\* the collection after the step holds what the handler of step l did to ts
Mutated(ts, ts2, l) ==
    CASE l.op = "addBtn" ->
            /\ Len(ts2) = Len(ts) + 1
            /\ SubSeq(ts2, 1, Len(ts)) = ts
            /\ ts2[Len(ts2)].title = Trim(l.raw)
            /\ ts2[Len(ts2)].due = l.due
      [] l.op = "checkbox" ->
            ts2[findIndex(ts, l.id)].completed = l.checked
      [] l.op = "editSave" ->
            /\ ts2[findIndex(ts, l.id)].title = Trim(l.raw)
            /\ ts2[findIndex(ts, l.id)].due = l.due
      [] l.op = "deleteTask" ->
            /\ ~HasId(ts2, l.id)
            /\ Len(ts2) = Len(WithoutId(ts, l.id))
      [] l.op = "clearCompleted" ->
            /\ \A i \in 1..Len(ts2) : ~ts2[i].completed
            /\ Len(ts2) = Len(WithoutCompleted(ts))
      [] l.op = "reorder" ->
            ts2 = ApplyOrder(ts, l.ids)
      [] OTHER -> TRUE

\* C12: when the storage write of a mutating operation fails, memory holds the
\* result of the mutation (no rollback) and the blob keeps its previous content
\* (nothing is written, then or by a retry); and the next mutating operation
\* whose write succeeds leaves in storage the full collection as it is in memory.
C12_WriteFailure ==
    [][/\ last'.failed => (storage' = storage /\ Mutated(tasks, tasks', last'))
       /\ (last.failed /\ last'.wrote) => StorageHolds(tasks)']_vars

---------------------------------------------------------------------------
(* C13 *)

\* unique non-empty ids and trimmed non-empty titles; in this model due is always
\* a date string or "", completed a boolean, createdAt set, and order a JS number
WellFormed(ts) ==
    /\ \A i, j \in 1..Len(ts) : i # j => ts[i].id # ts[j].id
    /\ \A i \in 1..Len(ts) :
          /\ ts[i].id # ""
          /\ ts[i].title # <<>>
          /\ Trim(ts[i].title) = ts[i].title

\* C13: for any well-formed collection, save followed by load gives the same
\* tasks in the same sequence with the same id, title, due, completed, createdAt
\* and order.
C13_RoundTrip ==
    WellFormed(tasks) => loadTasks(saveTasks(tasks), uids, now) = tasks

---------------------------------------------------------------------------
(* C14 *)

\* C14: load gives the empty collection whenever the blob is absent, does not
\* parse, or parses to something that is not an array, and no load changes the
\* blob; for the load at page start and for every later one.
C14_LoadOfNoArray ==
    /\ storage.kind # "array" => tasks = <<>>
    /\ [][last'.op = "loadTasks" =>
              /\ storage' = storage
              /\ storage.kind # "array" => tasks' = <<>>]_vars

\* the page was loaded again over a blob that holds one record outside any array
C14_Witness ==
    /\ last.op = "loadTasks" /\ events > 0
    /\ storage.kind = "nonarray" /\ storage.items # <<>>
    /\ tasks = <<>>

---------------------------------------------------------------------------
(* C15 *)

\* the title contains the text, letters compared without regard to case
ContainsNoCase(title, text) ==
    \E i \in 0..(Len(title) - Len(text)) :
        \A k \in 1..Len(text) : LowerChar(title[i + k]) = LowerChar(text[k])

\* the task is one the query asks for
Wanted(t, st) ==
    /\ ContainsNoCase(t.title, st.search)
    /\ \/ st.filter = "all"
       \/ st.filter = "done" /\ t.completed
       \/ st.filter = "todo" /\ ~t.completed

\* how many times the record r occurs in the sequence q
Count(q, r) == Cardinality({ i \in 1..Len(q) : q[i] = r })

\* the projection v of ts under query st holds the wanted tasks, each as often as
\* ts does, and under manual sort they lie by increasing order, tasks of equal
\* order as they lie in ts
Projects(v, ts, st) ==
    LET wanted(t) == Wanted(t, st)
        all == SelectSeq(ts, wanted)
    IN  /\ Len(v) = Len(all)
        /\ \A i \in 1..Len(all) : Count(v, all[i]) = Count(all, all[i])
        /\ st.sort = "manual" =>
              /\ \A i, j \in 1..Len(v) : i < j => v[i].order <= v[j].order
              /\ \A o \in Orders(all) :
                    LET at(t) == t.order = o
                    IN  SelectSeq(v, at) = SelectSeq(all, at)

\* C15: the projection holds exactly the tasks whose title contains the search
\* text without regard to case and whose completed flag fits the filter, each
\* once; under manual sort by increasing order with ties as in the collection;
\* and the handlers that only compute it (search, filter, sort) change neither
\* the collection in memory nor the blob.
C15_Projection ==
    /\ [](Projects(getFilteredSortedTasks(tasks, state), tasks, state))
    /\ [][(last'.op = "search" \/ last'.op = "filter" \/ last'.op = "sort")
              => (tasks' = tasks /\ storage' = storage)]_vars

\* a search typed in capitals was run under manual sort over a collection that
\* has the letter in lower case in one title, and it kept some tasks and dropped
\* others
C15_Witness ==
    /\ last.op = "search" /\ last.raw = <<"B">>
    /\ state.sort = "manual"
    /\ \E i \in 1..Len(tasks) : tasks[i].title = <<"A", "b">>
    /\ Len(getFilteredSortedTasks(tasks, state)) \in 1..(Len(tasks) - 1)

---------------------------------------------------------------------------
(* C16 *)

\* ts2 is ts with one task appended as create makes it
Appended(ts, ts2) ==
    LET new == ts2[Len(ts2)]
    IN  /\ Len(ts2) = Len(ts) + 1
        /\ SubSeq(ts2, 1, Len(ts)) = ts
        /\ ~new.completed
        /\ new.order = IF ts = <<>> THEN 0 ELSE MaxPlusOne(Orders(ts))

\* the last task of ts2 is above every other in order, and last in manual sort
NewestOnTop(ts2) ==
    LET new == ts2[Len(ts2)]
    IN  /\ \A i \in 1..(Len(ts2) - 1) : ts2[i].order < new.order
        /\ ManualView(ts2)[Len(ts2)] = new

\* C16: a create with a non-empty title appends exactly one task, not completed,
\* with order max+1 (0 in an empty collection), and leaves the other tasks as
\* they are; the new task's order is strictly greater than every other task's
\* and the task is last in the manual projection.
C16_CreateAppends ==
    [][(last'.op = "addBtn" /\ last'.hit)
          => (Appended(tasks, tasks') /\ NewestOnTop(tasks'))]_vars

---------------------------------------------------------------------------
(* C17 *)

\* the tasks of ts2 are those of ts, each at the position it had
SamePlaces(ts, ts2) ==
    /\ Len(ts2) = Len(ts)
    /\ \A i \in 1..Len(ts) :
          ts2[i].id = ts[i].id /\ ts2[i].createdAt = ts[i].createdAt

\* C17: a delete(id), and a clearCompleted() that finds a completed task, leave
\* the array in memory sorted and numbered: the survivors lie in their manual
\* order, and the task at position i (from 0) has order i. Create, update, reorder and the handlers that compute the projection
\* leave every existing task at its position in the array.
C17_SequenceOfArray ==
    [][/\ (last'.op = "deleteTask" \/ (last'.op = "clearCompleted" /\ last'.hit))
            => /\ BareSeq(tasks') = BareSeq(ManualView(Survivors(tasks, last')))
               /\ \A i \in 1..Len(tasks') : tasks'[i].order = i - 1
       /\ (last'.op = "addBtn" /\ last'.hit)
            => SamePlaces(tasks, SubSeq(tasks', 1, Len(tasks)))
       /\ (last'.op = "checkbox" \/ last'.op = "editSave" \/ last'.op = "reorder"
             \/ last'.op = "search" \/ last'.op = "filter" \/ last'.op = "sort")
            => SamePlaces(tasks, tasks')]_vars

\* a delete took one task out of three that a drag had put in reverse order: the
\* array now starts with the task that was loaded last
C17_Witness ==
    /\ last.op = "deleteTask" /\ last.hit /\ last.id = "b"
    /\ IdsOf(tasks) = <<"c", "a">>

============================================================================
